---- MODULE Spec2Model ----
(***************************************************************************)
(* Model of View_engagement_scraper_old.py: one synchronous batch run that *)
(* pages through an Airtable view, derives a YouTube video id from each    *)
(* record's "Asset Link", looks the statistics up and PATCHes the results  *)
(* back in groups of 10.                                                   *)
(*                                                                         *)
(* Python values are tagged records: None is [t |-> "none"], a string is   *)
(* [t |-> "str", s |-> <<atoms>>] where the atoms are the pieces of text   *)
(* the code distinguishes ("/", "live", an id, ...), a dict is             *)
(* [t |-> "dict", ...] and a raised exception is [t |-> "raise", ...].     *)
(* A URL string is kept as the three pieces urlparse() cuts it into        *)
(* (netloc, path, query); the empty string is the URL whose pieces are all *)
(* empty.                                                                  *)
(***************************************************************************)
EXTENDS Integers, Sequences, FiniteSets, TLC

VARIABLES
    pc,           \* where the run is: "fetch", "process", "write", "done", "aborted", ...
    offset,       \* get_airtable_records: the cursor of the last response
    all_records,  \* get_airtable_records: the records accumulated so far
    idx,          \* main: position of the for loop in records (1-based)
    updates,      \* main: the update entries built so far
    i,            \* batch_update_airtable: the loop variable of range(0, n, 10)
    log,          \* the network calls made so far, in order
    printed,      \* the summary lines printed so far
    yt,           \* what the statistics endpoint answered for each id asked so far
    arg,          \* argument of a function called on its own
    ret           \* its result

vars == <<pc, offset, all_records, idx, updates, i, log, printed, yt, arg, ret>>

(***************************************************************************)
(* Bounds of the model and constants of the program                        *)
(***************************************************************************)
MaxPages == 3
MaxUpdates == 25
MaxPathLen == 7
MaxQueryLen == 2
MaxDigits == 2
BatchSize == 10
PageSize == 100

(***************************************************************************)
(* Python values                                                           *)
(***************************************************************************)
None == [t |-> "none"]

Str(s) == [t |-> "str", s |-> s]

ValueError == [t |-> "raise", exc |-> "ValueError"]

\* Python truthiness of the values the script tests with "not x"
Truthy(v) ==
    CASE v.t = "none" -> FALSE
      [] v.t = "str"  -> v.s # <<>>
      [] v.t = "url"  -> v.netloc # <<>> \/ v.path # <<>> \/ v.query # <<>>
      [] v.t = "dict" -> TRUE
      [] OTHER        -> TRUE

Min(a, b) == IF a < b THEN a ELSE b

\* PySlice with the upper end one short, as in s[lo:hi-1]
PySliceShort(s, lo, hi) == SubSeq(s, lo + 1, Min(hi - 1, Len(s)))

\* s[lo:hi] for 0 <= lo
PySlice(s, lo, hi) == SubSeq(s, lo + 1, Min(hi, Len(s)))

\* needle in hay, for strings given as sequences of atoms
Contains(hay, needle) ==
    \E k \in 0..(Len(hay) - Len(needle)) :
        SubSeq(hay, k + 1, k + Len(needle)) = needle

StartsWith(s, p) == Len(s) >= Len(p) /\ SubSeq(s, 1, Len(p)) = p

\* index of the first occurrence of sep in s at or after position k, 0 if none
RECURSIVE FindFrom(_, _, _)
FindFrom(s, sep, k) ==
    IF k + Len(sep) - 1 > Len(s) THEN 0
    ELSE IF SubSeq(s, k, k + Len(sep) - 1) = sep THEN k
    ELSE FindFrom(s, sep, k + 1)

\* s.split(sep)[-1]: what follows the last of the non-overlapping matches
\* str.split finds scanning from the left
RECURSIVE SplitLast(_, _)
SplitLast(s, sep) ==
    LET k == FindFrom(s, sep, 1)
    IN  IF k = 0 THEN s
        ELSE SplitLast(SubSeq(s, k + Len(sep), Len(s)), sep)

\* s.split(sep)[0]: what precedes the first match
SplitFirst(s, sep) ==
    LET k == FindFrom(s, sep, 1)
    IN  IF k = 0 THEN s ELSE SubSeq(s, 1, k - 1)

\* s.strip("/")
RECURSIVE LStrip(_)
LStrip(s) == IF s # <<>> /\ Head(s) = "/" THEN LStrip(Tail(s)) ELSE s

RECURSIVE RStrip(_)
RStrip(s) ==
    IF s # <<>> /\ s[Len(s)] = "/" THEN RStrip(SubSeq(s, 1, Len(s) - 1)) ELSE s

Strip(s) == RStrip(LStrip(s))

(***************************************************************************)
(* urllib.parse as the script uses it                                      *)
(***************************************************************************)
Url(netloc, path, query) ==
    [t |-> "url", netloc |-> netloc, path |-> path, query |-> query]

EmptyUrl == Url(<<>>, <<>>, <<>>)

\* urlparse(url): raises ValueError("Invalid IPv6 URL") when the netloc has
\* one of "[" and "]" without the other; otherwise yields the pieces
urlparse(url) ==
    IF Contains(url.netloc, <<"[">>) # Contains(url.netloc, <<"]">>)
    THEN ValueError
    ELSE url

\* parse_qs(query).get('v', [None])[0]: pairs with a blank value are dropped
\* (keep_blank_values=False), the first remaining value of key "v" is taken
QueryGetV(query) ==
    LET vs == SelectSeq(query, LAMBDA p : p.k = "v" /\ p.v # <<>>)
    IN  IF vs = <<>> THEN None ELSE Str(vs[1].v)

LivePrefix == <<"/", "live", "/">>

extract_video_id(url) ==
    IF ~Truthy(url) THEN None
    ELSE LET parsed_url == urlparse(url)
         IN  IF parsed_url.t = "raise" THEN parsed_url
             ELSE IF Contains(parsed_url.netloc, <<"youtu.be">>)
                  THEN Str(Strip(parsed_url.path))
             ELSE IF Contains(parsed_url.netloc, <<"youtube.com">>)
                     /\ StartsWith(parsed_url.path, LivePrefix)
                  THEN Str(SplitFirst(SplitLast(parsed_url.path, LivePrefix), <<"/">>))
             ELSE IF Contains(parsed_url.netloc, <<"youtube.com">>)
                  THEN QueryGetV(parsed_url.query)
             ELSE None

(***************************************************************************)
(* dicts are functions whose domain is the set of keys present             *)
(***************************************************************************)
EmptyDict == [k \in {} |-> None]

\* d.get(key, default)
Get(d, key, default) == IF key \in DOMAIN d THEN d[key] ELSE default

IntV(n) == [t |-> "int", n |-> n]

\* value of a string of decimal digits
RECURSIVE ParseDec(_)
ParseDec(ds) ==
    IF ds = <<>> THEN 0
    ELSE 10 * ParseDec(SubSeq(ds, 1, Len(ds) - 1)) + ds[Len(ds)]

\* int(x) for x the default 0 or a string of digits
PyInt(x) == IF x.t = "int" THEN x.n ELSE ParseDec(x.s)

\* get_youtube_stats answering zeros, not None, when no item matches
get_youtube_stats_zeros(response) ==
    IF response.status_code # 200 THEN None
    ELSE LET data  == response.data
             stats == IF "items" \in DOMAIN data /\ data["items"] # <<>>
                      THEN data["items"][1]["statistics"]
                      ELSE EmptyDict
         IN  [t        |-> "dict",
              views    |-> PyInt(Get(stats, "viewCount", IntV(0))),
              likes    |-> PyInt(Get(stats, "likeCount", IntV(0))),
              comments |-> PyInt(Get(stats, "commentCount", IntV(0)))]

(***************************************************************************)
(* get_youtube_stats, given the response requests.get returned             *)
(***************************************************************************)
get_youtube_stats(response) ==
    IF response.status_code # 200 THEN None
    ELSE LET data == response.data
         IN  IF "items" \in DOMAIN data /\ data["items"] # <<>>
             THEN LET stats == data["items"][1]["statistics"]
                  IN  [t        |-> "dict",
                       views    |-> PyInt(Get(stats, "viewCount", IntV(0))),
                       likes    |-> PyInt(Get(stats, "likeCount", IntV(0))),
                       comments |-> PyInt(Get(stats, "commentCount", IntV(0)))]
             ELSE None

(***************************************************************************)
(* What the two services may answer                                        *)
(***************************************************************************)
Rec(id, link) == [id |-> id, fields |-> ("Asset Link" :> link)]

ShortLink(p) == Url(<<"youtu.be">>, p, <<>>)

WatchLink(v) == Url(<<"www.", "youtube.com">>, <<"/", "watch">>, <<[k |-> "v", v |-> v]>>)

LiveLink(p) == Url(<<"www.", "youtube.com">>, LivePrefix \o p, <<>>)

\* a page of records of every kind main distinguishes
BatchMixed ==
    << [id |-> "m1"],
       [id |-> "m2", fields |-> EmptyDict],
       Rec("m3", EmptyUrl),
       Rec("m4", ShortLink(<<"/", "a">>)),
       Rec("m5", ShortLink(<<"/">>)),
       Rec("m6", Url(<<"example.com">>, <<"/", "a">>, <<>>)),
       Rec("m7", WatchLink(<<"s">>)),
       Rec("m8", WatchLink(<<>>)) >>

\* a page of records that all name the same video
BatchBulk ==
    << Rec("b1", ShortLink(<<"/", "s">>)),
       Rec("b2", WatchLink(<<"s">>)),
       Rec("b3", LiveLink(<<"s">>)),
       Rec("b4", ShortLink(<<"/", "s", "/">>)),
       Rec("b5", LiveLink(<<"s", "/", "a">>)),
       Rec("b6", ShortLink(<<"/", "s">>)) >>

\* a page holding a link urlparse rejects
BatchBad ==
    << Rec("x1", ShortLink(<<"/", "s">>)),
       Rec("x2", Url(<<"[", "youtu.be">>, <<"/", "a">>, <<>>)),
       Rec("x3", ShortLink(<<"/", "s">>)) >>

Batches == {BatchMixed, BatchBulk, BatchBad}

\* the cursor the store hands out with its j-th response
Cursor(j) == Str(<<"itr", ToString(j)>>)

\* bodies of the j-th page response: "records" and "offset" are each optional,
\* and the cursor may be the empty string
PageResponses(j) ==
    { r @@ o : r \in {EmptyDict} \cup { "records" :> b : b \in Batches },
               o \in {EmptyDict, "offset" :> Str(<<>>), "offset" :> Cursor(j)} }

YtResponse(status, data) == [status_code |-> status, data |-> data]

Item(stats) == [statistics |-> stats]

Forbidden == YtResponse(403, EmptyDict)

NotFound == YtResponse(200, "items" :> <<>>)

Found == YtResponse(200, "items" :> <<Item([viewCount |-> Str(<<1, 7>>), commentCount |-> Str(<<0>>)])>>)

\* answers of the statistics endpoint during a run
YtResponsesMain == {Forbidden, NotFound, Found}

\* the endpoint's answer for one id is taken not to change within a run
YtAnswers(video_id) ==
    IF video_id \in DOMAIN yt THEN {yt[video_id]} ELSE YtResponsesMain

\* status codes of the store's answer to a PATCH
PatchStatuses == {200, 422}

(***************************************************************************)
(* The run                                                                 *)
(***************************************************************************)
Init ==
    /\ pc = "fetch"
    /\ offset = None
    /\ all_records = <<>>
    /\ idx = 1
    /\ updates = <<>>
    /\ i = 0
    /\ log = <<>>
    /\ printed = <<>>
    /\ yt = EmptyDict
    /\ arg = None
    /\ ret = None

PageRequests == SelectSeq(log, LAMBDA e : e.op = "get")

Lookups == SelectSeq(log, LAMBDA e : e.op = "lookup")

Patches == SelectSeq(log, LAMBDA e : e.op = "patch")

\* PageParams that never sends the cursor
PageParamsNoCursor(off) == [pageSize |-> PageSize, view |-> "view"]

\* the query parameters of a page request
PageParams(off) ==
    IF Truthy(off)
    THEN [pageSize |-> PageSize, view |-> "view", offset |-> off]
    ELSE [pageSize |-> PageSize, view |-> "view"]

\* LastPage testing "offset is None", so that an empty cursor goes on
LastPageIsNone(off) == off = None

\* "if not offset: break"
LastPage(off) == ~Truthy(off)

\* get_airtable_records: one turn of the while loop; on the last one the
\* function returns and main prints the number of records pulled
FetchPage ==
    /\ pc = "fetch"
    /\ Len(PageRequests) < MaxPages
    /\ \E data \in PageResponses(Len(PageRequests) + 1) :
         LET batch == Get(data, "records", <<>>)
             next  == Get(data, "offset", None)
         IN  /\ log' = Append(log, [op |-> "get", params |-> PageParams(offset), data |-> data])
             /\ all_records' = all_records \o batch
             /\ offset' = next
             /\ IF LastPage(next)
                THEN /\ pc' = "process"
                     /\ printed' = Append(printed, <<"pulled", Len(all_records')>>)
                ELSE /\ pc' = "fetch"
                     /\ printed' = printed
    /\ UNCHANGED <<idx, updates, i, yt, arg, ret>>

\* fields.get("Asset Link") of the record the loop is at
LinkOf(record) == Get(Get(record, "fields", EmptyDict), "Asset Link", None)

UpdateEntry(record, stats) ==
    [id |-> record["id"],
     fields |-> [Views |-> stats.views, Likes |-> stats.likes, Comments |-> stats.comments]]

\* main: a turn of the for loop on a record without a link
SkipNoLink ==
    /\ pc = "process"
    /\ idx <= Len(all_records)
    /\ ~Truthy(LinkOf(all_records[idx]))
    /\ idx' = idx + 1
    /\ UNCHANGED <<pc, offset, all_records, updates, i, log, printed, yt, arg, ret>>

\* main: a turn of the for loop in which extract_video_id raises
ExtractRaises ==
    /\ pc = "process"
    /\ idx <= Len(all_records)
    /\ Truthy(LinkOf(all_records[idx]))
    /\ extract_video_id(LinkOf(all_records[idx])).t = "raise"
    /\ pc' = "aborted"
    /\ UNCHANGED <<offset, all_records, idx, updates, i, log, printed, yt, arg, ret>>

\* main: a turn of the for loop on a record whose link gives no id
SkipNoId ==
    /\ pc = "process"
    /\ idx <= Len(all_records)
    /\ Truthy(LinkOf(all_records[idx]))
    /\ extract_video_id(LinkOf(all_records[idx])).t # "raise"
    /\ ~Truthy(extract_video_id(LinkOf(all_records[idx])))
    /\ idx' = idx + 1
    /\ UNCHANGED <<pc, offset, all_records, updates, i, log, printed, yt, arg, ret>>

\* Collect putting the new entry in front
CollectFront(ups, record, stats) ==
    IF ~Truthy(stats) THEN ups ELSE <<UpdateEntry(record, stats)>> \o ups

\* updates after the lookup of a record
Collect(ups, record, stats) ==
    IF ~Truthy(stats) THEN ups ELSE Append(ups, UpdateEntry(record, stats))

\* LookupRecord with the write inside the for loop: the entries collected so
\* far are sent right after the lookup
LookupRecordEager ==
    /\ pc = "process"
    /\ idx <= Len(all_records)
    /\ Truthy(LinkOf(all_records[idx]))
    /\ LET video_id == extract_video_id(LinkOf(all_records[idx]))
       IN  /\ video_id.t # "raise"
           /\ Truthy(video_id)
           /\ \E response \in YtAnswers(video_id) :
                /\ yt' = (video_id :> response) @@ yt
                /\ updates' = Collect(updates, all_records[idx], get_youtube_stats(response))
                /\ log' = log \o << [op |-> "lookup", video_id |-> video_id,
                                     rec |-> idx, response |-> response],
                                    [op |-> "patch", start |-> 0,
                                     records |-> PySlice(updates', 0, BatchSize),
                                     status |-> 200] >>
    /\ idx' = idx + 1
    /\ UNCHANGED <<pc, offset, all_records, i, printed, arg, ret>>

\* main: a turn of the for loop that reaches get_youtube_stats
LookupRecord ==
    /\ pc = "process"
    /\ idx <= Len(all_records)
    /\ Truthy(LinkOf(all_records[idx]))
    /\ LET video_id == extract_video_id(LinkOf(all_records[idx]))
       IN  /\ video_id.t # "raise"
           /\ Truthy(video_id)
           /\ \E response \in YtAnswers(video_id) :
                /\ yt' = (video_id :> response) @@ yt
                /\ log' = Append(log, [op |-> "lookup", video_id |-> video_id,
                                       rec |-> idx, response |-> response])
                /\ updates' = Collect(updates, all_records[idx], get_youtube_stats(response))
    /\ idx' = idx + 1
    /\ UNCHANGED <<pc, offset, all_records, i, printed, arg, ret>>

\* main after the for loop: "if updates: ... else: ..."
LoopEnd ==
    /\ pc = "process"
    /\ idx > Len(all_records)
    /\ IF updates # <<>>
       THEN /\ pc' = "write"
            /\ i' = 0
            /\ printed' = printed
       ELSE /\ pc' = "done"
            /\ i' = i
            /\ printed' = Append(printed, <<"no updates">>)
    /\ UNCHANGED <<offset, all_records, idx, updates, log, yt, arg, ret>>

\* BatchRequest that looks at the answer and gives up on a failure
BatchRequestChecked(at) ==
    /\ pc = at
    /\ i < Len(updates)
    /\ \E status \in PatchStatuses :
         /\ log' = log \o << [op |-> "patch", start |-> i,
                              records |-> PySlice(updates, i, i + BatchSize),
                              status |-> status],
                             [op |-> "sleep"] >>
         /\ pc' = IF status = 200 THEN pc ELSE "aborted"
    /\ i' = i + BatchSize
    /\ UNCHANGED <<offset, all_records, idx, updates, printed, yt, arg, ret>>

\* batch_update_airtable: one turn of the loop over range(0, len, 10): the
\* PATCH of one group, whose answer is not looked at, then the pause
BatchRequest(at) ==
    /\ pc = at
    /\ i < Len(updates)
    /\ \E status \in PatchStatuses :
         log' = log \o << [op |-> "patch", start |-> i,
                           records |-> PySlice(updates, i, i + BatchSize),
                           status |-> status],
                          [op |-> "sleep"] >>
    /\ i' = i + BatchSize
    /\ UNCHANGED <<pc, offset, all_records, idx, updates, printed, yt, arg, ret>>

MainWrite == BatchRequest("write")

\* batch_update_airtable returns to main, which prints the success line
MainWriteReturn ==
    /\ pc = "write"
    /\ i >= Len(updates)
    /\ pc' = "done"
    /\ printed' = Append(printed, <<"updated", Len(updates)>>)
    /\ UNCHANGED <<offset, all_records, idx, updates, i, log, yt, arg, ret>>

Next ==
    \/ FetchPage
    \/ SkipNoLink
    \/ ExtractRaises
    \/ SkipNoId
    \/ LookupRecord
    \/ LoopEnd
    \/ MainWrite
    \/ MainWriteReturn

Spec == Init /\ [][Next]_vars

\* the script is one thread and, every network call returning, always takes
\* its next step
FairSpec == Spec /\ WF_vars(Next)

(***************************************************************************)
(* batch_update_airtable called on its own with a list of n entries        *)
(***************************************************************************)
Entries(n) ==
    [k \in 1..n |-> [id |-> ToString(k),
                     fields |-> [Views |-> k, Likes |-> 0, Comments |-> 0]]]

InitBatch ==
    /\ pc = "batch"
    /\ updates \in { Entries(n) : n \in 0..MaxUpdates }
    /\ i = 0
    /\ offset = None
    /\ all_records = <<>>
    /\ idx = 1
    /\ log = <<>>
    /\ printed = <<>>
    /\ yt = EmptyDict
    /\ arg = None
    /\ ret = None

WriterCall == BatchRequest("batch")

\* the range is used up: batch_update_airtable returns (None)
WriterReturn ==
    /\ pc = "batch"
    /\ i >= Len(updates)
    /\ pc' = "returned"
    /\ UNCHANGED <<offset, all_records, idx, updates, i, log, printed, yt, arg, ret>>

NextBatch == WriterCall \/ WriterReturn

SpecBatch == InitBatch /\ [][NextBatch]_vars

(***************************************************************************)
(* extract_video_id called on its own                                      *)
(***************************************************************************)
SeqsUpTo(S, n) == UNION { [1..k -> S] : k \in 0..n }

Netlocs ==
    { <<>>, <<"youtu.be">>, <<"www.", "youtube.com">>, <<"example.com">>,
      <<"youtu.be", ".", "youtube.com">>, <<"[", "youtu.be">> }

PathAtoms == {"/", "live", "a"}

\* with a netloc in front, a path is empty or begins with "/"
Paths == { p \in SeqsUpTo(PathAtoms, MaxPathLen) : p = <<>> \/ p[1] = "/" }

Queries == SeqsUpTo([k : {"v", "t"}, v : {<<>>, <<"a">>, <<"b">>}], MaxQueryLen)

UrlInputs ==
    {None}
    \cup { Url(n, p, <<>>) : n \in Netlocs, p \in Paths }
    \cup { Url(n, p, q) : n \in Netlocs, p \in {<<>>, <<"/", "a">>}, q \in Queries }

InitExtract ==
    /\ pc = "extract"
    /\ arg \in UrlInputs
    /\ ret = None
    /\ offset = None
    /\ all_records = <<>>
    /\ idx = 1
    /\ updates = <<>>
    /\ i = 0
    /\ log = <<>>
    /\ printed = <<>>
    /\ yt = EmptyDict

ExtractCall ==
    /\ pc = "extract"
    /\ ret' = extract_video_id(arg)
    /\ pc' = IF ret'.t = "raise" THEN "raised" ELSE "returned"
    /\ UNCHANGED <<offset, all_records, idx, updates, i, log, printed, yt, arg>>

SpecExtract == InitExtract /\ [][ExtractCall]_vars

(***************************************************************************)
(* get_youtube_stats called on its own                                     *)
(***************************************************************************)
Digits == {0, 7}

DigitStrs == { Str(ds) : ds \in SeqsUpTo(Digits, MaxDigits) \ {<<>>} }

CounterKeys == {"viewCount", "likeCount", "commentCount"}

\* the statistics object: each counter a string of digits, or left out
StatsDicts == UNION { [K -> DigitStrs] : K \in SUBSET CounterKeys }

SecondItem == Item([viewCount |-> Str(<<7, 7>>), likeCount |-> Str(<<7>>), commentCount |-> Str(<<7>>)])

YtResponses ==
    { YtResponse(st, EmptyDict) : st \in {200, 204, 403, 404} }
    \cup { YtResponse(st, "items" :> <<>>) : st \in {200, 404} }
    \cup { YtResponse(200, "items" :> <<Item(st)>>) : st \in StatsDicts }
    \cup { YtResponse(200, "items" :> <<Item(st), SecondItem>>) : st \in StatsDicts }
    \cup { YtResponse(403, "items" :> <<SecondItem>>) }

InitStats ==
    /\ pc = "stats"
    /\ arg \in YtResponses
    /\ ret = None
    /\ offset = None
    /\ all_records = <<>>
    /\ idx = 1
    /\ updates = <<>>
    /\ i = 0
    /\ log = <<>>
    /\ printed = <<>>
    /\ yt = EmptyDict

StatsCall ==
    /\ pc = "stats"
    /\ ret' = get_youtube_stats(arg)
    /\ pc' = "returned"
    /\ UNCHANGED <<offset, all_records, idx, updates, i, log, printed, yt, arg>>

SpecStats == InitStats /\ [][StatsCall]_vars

(***************************************************************************)
(* Properties                                                              *)
(***************************************************************************)
Last(s) == s[Len(s)]

RECURSIVE Flatten(_)
Flatten(ss) == IF ss = <<>> THEN <<>> ELSE Head(ss) \o Flatten(Tail(ss))

Ids(rs) == [k \in 1..Len(rs) |-> rs[k]["id"]]

\* s can be obtained from t by leaving elements out
RECURSIVE IsSubseq(_, _)
IsSubseq(s, t) ==
    IF s = <<>> THEN TRUE
    ELSE IF t = <<>> THEN FALSE
    ELSE IF Head(s) = Head(t) THEN IsSubseq(Tail(s), Tail(t))
    ELSE IsSubseq(s, Tail(t))

\* the entries sent so far, in request order
Written == Flatten([k \in 1..Len(Patches) |-> Patches[k].records])

\* the record at position k has a link, the link gives an id, and the lookup
\* made for it gave statistics
Qualifies(k) ==
    /\ Truthy(LinkOf(all_records[k]))
    /\ extract_video_id(LinkOf(all_records[k])).t = "str"
    /\ \E j \in 1..Len(Lookups) :
         /\ Lookups[j].rec = k
         /\ Lookups[j].video_id = extract_video_id(LinkOf(all_records[k]))
         /\ get_youtube_stats(Lookups[j].response) # None

QualifyingIds ==
    Ids(SelectSeq([k \in 1..Len(all_records) |-> [id |-> all_records[k]["id"], pos |-> k]],
                  LAMBDA r : Qualifies(r.pos)))

\* C1, first half: once the for loop is over, the update entries are those of
\* the records that have a link, whose link gives a non-null id and whose
\* lookup succeeded, one entry each
EntriesAreTheQualifying ==
    pc \in {"write", "done"} => Ids(updates) = QualifyingIds

\* C1: after the per-record loop an update entry exists for a record if and
\* only if it has a link, the link gives a non-null id and the lookup
\* succeeds; a record failing a step gives no entry and never aborts the run
C1_EntryIffAllStepsSucceed ==
    /\ EntriesAreTheQualifying
    /\ pc # "aborted"

Phase(e) ==
    CASE e.op = "get"    -> 1
      [] e.op = "lookup" -> 2
      [] OTHER           -> 3

\* C2: page requests come before every lookup, lookups before every write,
\* and the writes go out in group order
C2_PhaseOrder ==
    /\ \A j \in 1..(Len(log) - 1) : Phase(log[j]) <= Phase(log[j + 1])
    /\ \A j \in 1..(Len(Patches) - 1) : Patches[j].start < Patches[j + 1].start

C2_Witness ==
    /\ pc = "done"
    /\ Len(PageRequests) >= 2
    /\ Len(Lookups) >= 2
    /\ Len(Patches) >= 2

\* C3: the first page request carries no offset, each later one carries the
\* cursor of the response before it, the requests stop at the first response
\* without a cursor, and the records returned are the pages' records in order
C3_Pagination ==
    LET G == PageRequests
    IN  /\ \A j \in 1..Len(G) :
             IF j = 1
             THEN "offset" \notin DOMAIN G[j].params
             ELSE /\ "offset" \in DOMAIN G[j - 1].data
                  /\ Truthy(G[j - 1].data["offset"])
                  /\ "offset" \in DOMAIN G[j].params
                  /\ G[j].params.offset = G[j - 1].data["offset"]
        /\ all_records = Flatten([j \in 1..Len(G) |-> Get(G[j].data, "records", <<>>)])
        /\ pc # "fetch" => /\ G # <<>>
                           /\ "offset" \notin DOMAIN Last(G).data
                              \/ ~Truthy(Last(G).data["offset"])

C3_Witness ==
    /\ pc = "process"
    /\ Len(PageRequests) = 2
    /\ "offset" \notin DOMAIN PageRequests[2].data
    /\ all_records = BatchMixed \o BatchBulk

\* C4: a list of n entries goes out in ceil(n/10) requests, the j-th holding
\* entries 10(j-1)+1 .. min(10j, n) in order, each request 1 to 10 entries
C4_Groups ==
    LET n == Len(updates)
        P == Patches
    IN  /\ \A j \in 1..Len(P) :
             /\ P[j].records = SubSeq(updates, 10 * (j - 1) + 1, Min(10 * j, n))
             /\ Len(P[j].records) \in 1..10
        /\ pc = "returned" => /\ Len(P) = (n + 9) \div 10
                              /\ Written = updates

C4_Witness ==
    /\ pc = "returned"
    /\ Len(updates) = 25
    /\ [j \in 1..Len(Patches) |-> Len(Patches[j].records)] = <<10, 10, 5>>

\* C5: extract_video_id gives none or a non-empty identifier on every
\* input, and never raises
C5_NoneOrNonEmpty ==
    pc # "extract" => \/ ret = None
                      \/ ret.t = "str" /\ ret.s # <<>>

\* what follows the leading "/live/" of a path, up to the next slash
AfterLeadingLive(path) == SplitFirst(SubSeq(path, Len(LivePrefix) + 1, Len(path)), <<"/">>)

\* C6: on a main-domain URL whose path begins with "/live/" the result is
\* the segment right after that leading "/live/", whatever follows it
C6_LeadingLiveSegment ==
    ( /\ pc # "extract"
      /\ arg.t = "url"
      /\ urlparse(arg).t # "raise"
      /\ ~Contains(arg.netloc, <<"youtu.be">>)
      /\ Contains(arg.netloc, <<"youtube.com">>)
      /\ StartsWith(arg.path, LivePrefix) )
    => ret = Str(AfterLeadingLive(arg.path))

CounterOf(stats, key) == IF key \in DOMAIN stats THEN ParseDec(stats[key].s) ELSE 0

\* C7: none on a status other than 200, none when "items" is absent or
\* empty; otherwise the three counters of the first item, each 0 when absent
C7_StatsResult ==
    pc = "returned" =>
        IF arg.status_code # 200 THEN ret = None
        ELSE IF "items" \notin DOMAIN arg.data THEN ret = None
        ELSE IF arg.data["items"] = <<>> THEN ret = None
        ELSE LET st == arg.data["items"][1]["statistics"]
             IN  /\ ret.t = "dict"
                 /\ ret.views = CounterOf(st, "viewCount")
                 /\ ret.likes = CounterOf(st, "likeCount")
                 /\ ret.comments = CounterOf(st, "commentCount")

C7_Witness ==
    /\ pc = "returned"
    /\ arg.status_code = 200
    /\ "items" \in DOMAIN arg.data
    /\ Len(arg.data["items"]) = 2
    /\ DOMAIN arg.data["items"][1]["statistics"] = {"viewCount", "commentCount"}
    /\ ret.t = "dict"
    /\ ret.views = 70
    /\ ret.likes = 0
    /\ ret.comments = 7

\* C8: whatever the store answers to a write, every group is sent once and
\* in order, none again, and main ends normally reporting all entries updated
C8_FireAndForget ==
    /\ \A j \in 1..Len(Patches) : Patches[j].start = 10 * (j - 1)
    /\ Patches # <<>> => pc \in {"write", "done"}
    /\ (pc = "done" /\ updates # <<>>) =>
           /\ Len(Patches) = (Len(updates) + 9) \div 10
           /\ Written = updates
           /\ Last(printed) = <<"updated", Len(updates)>>

C8_Witness ==
    /\ pc = "done"
    /\ Len(Patches) = 2
    /\ Patches[1].status = 422
    /\ Last(printed) = <<"updated", Len(updates)>>

NoCursorSeen ==
    /\ PageRequests # <<>>
    /\ ~Truthy(Get(Last(PageRequests).data, "offset", None))

Terminated == pc \in {"done", "aborted"}

\* C9: the run leaves the page loop only on a response without a non-empty
\* cursor, stays in it while responses carry one, and after such a response
\* it ends
C9_Termination ==
    /\ [](pc # "fetch" => NoCursorSeen)
    /\ []((PageRequests # <<>> /\ ~NoCursorSeen) => pc = "fetch")
    /\ (NoCursorSeen ~> Terminated)

C9_Witness ==
    /\ pc = "done"
    /\ Len(PageRequests) = 2
    /\ "offset" \in DOMAIN PageRequests[2].data
    /\ PageRequests[2].data["offset"] = Str(<<>>)
    /\ Patches # <<>>

\* C10: the entries written, in request order, are a subsequence of the
\* fetched records, and no record position is looked up twice
C10_WrittenSubsequence ==
    /\ IsSubseq(Ids(Written), Ids(all_records))
    /\ \A j \in 1..(Len(Lookups) - 1) : Lookups[j].rec < Lookups[j + 1].rec
    /\ \A j \in 1..Len(Lookups) : Lookups[j].rec \in 1..Len(all_records)

C10_Witness ==
    /\ pc = "done"
    /\ Len(Patches) = 2
    /\ Len(Written) < Len(all_records)
    /\ \E j, k \in 1..Len(Written) : j < k /\ Written[j].id = Written[k].id

====
